---- MODULE Spec2Model ----
(***************************************************************************)
(* Model of the WebAssembly kernels of src/wasm/src/lib.rs:                *)
(*   TextProcessor::boyer_moore_search, normalize_text, extract_keywords,  *)
(*   DataCompressor::fast_compress, delta_encode, delta_decode.            *)
(* Every kernel is a pure function of its arguments.  Each one gets its    *)
(* own specification: Init draws the arguments from bounded sets and the   *)
(* actions run the function, one action per loop iteration or per call.    *)
(* Indices i, j, pos are 0-based as in the source; TLA+ sequences are      *)
(* 1-based, so element k of a Vec v is v[k + 1].                           *)
(* Characters are Unicode scalar values (integers), bytes are 0..255.      *)
(***************************************************************************)
EXTENDS Integers, Sequences, FiniteSets, TLC

VARIABLES
    pc,             \* position of the running call
    text,           \* boyer_moore_search: text_chars
    pattern,        \* boyer_moore_search: pattern_chars
    i,              \* boyer_moore_search: window index
    j,              \* boyer_moore_search: pattern index where the last window stopped
    result,         \* boyer_moore_search: returned i32 (NoResult before the return)
    kw_text,        \* extract_keywords: the chars of text
    max_keywords,   \* extract_keywords: max_keywords
    keywords,       \* extract_keywords: the returned Vec<String>
    values,         \* delta_encode: the f32 samples, each as a count of halves
    encoded,        \* delta_encode: the returned bytes
    decoded,        \* delta_decode: the f32 values written to result, in halves
    data,           \* fast_compress: the input bytes
    pos,            \* fast_compress: the position i in data
    compressed,     \* fast_compress: the output Vec<u8>
    match_length,   \* fast_compress: best match length of the last position
    match_offset    \* fast_compress: best match offset of the last position

searchVars == <<text, pattern, i, j, result>>

kwVars == <<kw_text, max_keywords, keywords>>

deltaVars == <<values, encoded, decoded>>

compressVars == <<data, pos, compressed, match_length, match_offset>>

vars == <<pc, searchVars, kwVars, deltaVars, compressVars>>

----------------------------------------------------------------------------
(* Bounds of the model *)

MaxTextLen == 5
MaxPatLen == 3
MaxWords == 4
MaxKeywords == 3
MaxSamples == 3
MaxRun == 100
MaxDataLen == 30
MaxSeedLen == 3

----------------------------------------------------------------------------
(* Generic helpers *)

Max(a, b) == IF a >= b THEN a ELSE b

Min(a, b) == IF a <= b THEN a ELSE b

Range(s) == {s[k] : k \in 1..Len(s)}

SeqsUpTo(S, n) == UNION {[1..k -> S] : k \in 0..n}

----------------------------------------------------------------------------
(* TextProcessor::boyer_moore_search *)

NotFound == -1

NoResult == "none"

\* Characters of the search inputs: 'a', 'b' (one byte each) and U+00E9
\* (two bytes in UTF-8).
SearchChars == {97, 98, 233}

\* "hello world" and "world", the example of the documentation.
HelloWorld == <<104, 101, 108, 108, 111, 32, 119, 111, 114, 108, 100>>

World == <<119, 111, 114, 108, 100>>

\* Number of bytes of a char in a &str (UTF-8).
Utf8Len(ch) ==
    IF ch < 128 THEN 1 ELSE IF ch < 2048 THEN 2 ELSE IF ch < 65536 THEN 3 ELSE 4

\* str::len(): the length in bytes.
RECURSIVE StrLen(_)
StrLen(s) == IF s = <<>> THEN 0 ELSE Utf8Len(Head(s)) + StrLen(Tail(s))

\* bad_char: the map filled by the loop of lines 109-111; a later insert
\* overwrites an earlier one, so each char maps to its last index.
BadCharTable(p) ==
    [ch \in Range(p) |-> (CHOOSE k \in 1..Len(p) :
                             p[k] = ch /\ \A l \in (k + 1)..Len(p) : p[l] # ch) - 1]

\* Mutant of BadCharShift: a char absent from the pattern shifts by 0.
BadCharShiftZeroDefault(p, ch) ==
    IF ch \in Range(p) THEN BadCharTable(p)[ch] ELSE 0

\* bad_char.get(&ch).unwrap_or(&pattern_chars.len())
BadCharShift(p, ch) ==
    IF ch \in Range(p) THEN BadCharTable(p)[ch] ELSE Len(p)

\* The inner while loop: from j, step left while j > 0 and the chars agree.
RECURSIVE InnerScan(_, _, _, _)
InnerScan(t, p, w, k) ==
    IF k > 0 /\ t[w + k + 1] = p[k + 1] THEN InnerScan(t, p, w, k - 1) ELSE k

\* Mutant of WindowMatches: reaching pattern index 0 counts as a match.
WindowMatchesAtZero(t, p, w, k) == k = 0

\* The test after the inner loop (line 121).
WindowMatches(t, p, w, k) == t[w + k + 1] = p[k + 1]

\* The advance of the window on a mismatch at pattern index k.
WindowShift(t, p, w, k) == Max(BadCharShift(p, t[w + k + 1]), k)

SearchInputs ==
    (SeqsUpTo(SearchChars, MaxTextLen) \X SeqsUpTo(SearchChars, MaxPatLen))
        \cup {<<HelloWorld, World>>}

SearchIdle ==
    text = <<>> /\ pattern = <<>> /\ i = 0 /\ j = 0 /\ result = NoResult

KeywordsIdle ==
    kw_text = <<>> /\ max_keywords = 0 /\ keywords = <<>>

DeltaIdle ==
    values = <<>> /\ encoded = <<>> /\ decoded = <<>>

CompressIdle ==
    /\ data = <<>> /\ pos = 0 /\ compressed = <<>>
    /\ match_length = 0 /\ match_offset = 0

InitSearch ==
    /\ KeywordsIdle
    /\ DeltaIdle
    /\ CompressIdle
    /\ \E inp \in SearchInputs : text = inp[1] /\ pattern = inp[2]
    /\ pc = "search_call"
    /\ i = 0
    /\ j = 0
    /\ result = NoResult

\* Lines 97-99: empty pattern.
SearchEmptyPattern ==
    /\ pc = "search_call"
    /\ pattern = <<>>
    /\ result' = 0
    /\ pc' = "search_done"
    /\ UNCHANGED <<text, pattern, i, j, kwVars, deltaVars, compressVars>>

\* Lines 100-102: the guard on the byte lengths.
SearchTooShort ==
    /\ pc = "search_call"
    /\ pattern # <<>>
    /\ StrLen(text) < StrLen(pattern)
    /\ result' = NotFound
    /\ pc' = "search_done"
    /\ UNCHANGED <<text, pattern, i, j, kwVars, deltaVars, compressVars>>

\* Lines 104-113: collect the chars, build the table, i = 0.
SearchBegin ==
    /\ pc = "search_call"
    /\ pattern # <<>>
    /\ StrLen(text) >= StrLen(pattern)
    /\ i' = 0
    /\ pc' = "scan"
    /\ UNCHANGED <<text, pattern, j, result, kwVars, deltaVars, compressVars>>

\* Line 114 with fewer chars in text than in pattern: the usize subtraction
\* overflows.  A build with overflow checks panics there; a build without
\* them wraps, enters the loop with i = 0 and j = m - 1 >= 1 and panics on
\* the bounds check of text_chars[i + j].  Both builds panic.
ScanPanic ==
    /\ pc = "scan"
    /\ Len(text) < Len(pattern)
    /\ pc' = "panic"
    /\ UNCHANGED <<text, pattern, i, j, result, kwVars, deltaVars, compressVars>>

\* Line 114 false, line 130.
ScanExit ==
    /\ pc = "scan"
    /\ Len(text) >= Len(pattern)
    /\ i > Len(text) - Len(pattern)
    /\ result' = NotFound
    /\ pc' = "search_done"
    /\ UNCHANGED <<text, pattern, i, j, kwVars, deltaVars, compressVars>>

\* Lines 115-122: the window matches.
ScanReturn ==
    /\ pc = "scan"
    /\ Len(text) >= Len(pattern)
    /\ i <= Len(text) - Len(pattern)
    /\ LET k == InnerScan(text, pattern, i, Len(pattern) - 1) IN
         /\ WindowMatches(text, pattern, i, k)
         /\ j' = k
         /\ result' = i
         /\ pc' = "search_done"
    /\ UNCHANGED <<text, pattern, i, kwVars, deltaVars, compressVars>>

\* Lines 115-127: the window does not match.
ScanShift ==
    /\ pc = "scan"
    /\ Len(text) >= Len(pattern)
    /\ i <= Len(text) - Len(pattern)
    /\ LET k == InnerScan(text, pattern, i, Len(pattern) - 1) IN
         /\ ~WindowMatches(text, pattern, i, k)
         /\ j' = k
         /\ i' = i + WindowShift(text, pattern, i, k)
    /\ UNCHANGED <<pc, text, pattern, result, kwVars, deltaVars, compressVars>>

NextSearch ==
    \/ SearchEmptyPattern
    \/ SearchTooShort
    \/ SearchBegin
    \/ ScanPanic
    \/ ScanExit
    \/ ScanReturn
    \/ ScanShift

SpecSearch == InitSearch /\ [][NextSearch]_vars

FairSearch == SpecSearch /\ WF_vars(NextSearch)

----------------------------------------------------------------------------
(* Claims about boyer_moore_search *)

\* Index of the first occurrence of p in t by exhaustive comparison, or -1.
Occurs(t, p, w) ==
    /\ w + Len(p) <= Len(t)
    /\ \A k \in 1..Len(p) : t[w + k] = p[k]

NaiveSearch(t, p) ==
    IF \E w \in 0..Len(t) : Occurs(t, p, w)
    THEN CHOOSE w \in 0..Len(t) :
            Occurs(t, p, w) /\ \A v \in 0..(w - 1) : ~Occurs(t, p, v)
    ELSE NotFound

\* C1: for a non-empty pattern the call returns the smallest index at which
\* the pattern occurs in the text, and -1 only when it occurs nowhere.
C1_FirstOccurrence ==
    (pc = "search_done" /\ pattern # <<>>) => result = NaiveSearch(text, pattern)

\* C4: the degenerate cases return a defined value and never crash: an empty
\* pattern returns 0, a pattern with more chars than the text returns -1.
C4_DegenerateCases ==
    /\ pc # "panic"
    /\ (pc = "search_done" /\ pattern = <<>>) => result = 0
    /\ (pc = "search_done" /\ Len(pattern) > Len(text)) => result = NotFound

\* C9: on every window that does not match the window index strictly
\* increases, and a scan of a text with at least as many chars as the
\* pattern eventually returns.
C9_ScanTerminates ==
    /\ [][(pc = "scan" /\ pc' = "scan") => i' > i]_vars
    /\ (pc = "scan" /\ Len(pattern) <= Len(text)) ~> (pc = "search_done")

\* C9 witness: the window has advanced after a mismatch at pattern index 0.
C9_Witness ==
    pc = "scan" /\ i > 0 /\ j = 0 /\ Len(pattern) >= 2

\* C10: a returned index r >= 0 for a non-empty pattern of m chars is a real
\* occurrence: r + m is within the text and all m chars agree.
C10_NoFalseMatch ==
    (pc = "search_done" /\ pattern # <<>> /\ result >= 0) =>
        /\ result + Len(pattern) <= Len(text)
        /\ \A k \in 0..(Len(pattern) - 1) : text[result + k + 1] = pattern[k + 1]

\* C10 witness: a match of a pattern of several chars found after a shift.
C10_Witness ==
    pc = "search_done" /\ result > 0 /\ Len(pattern) >= 2 /\ j = 0

----------------------------------------------------------------------------
(* TextProcessor::normalize_text and TextProcessor::extract_keywords *)

\* The raw words the texts are made of: "data", "Data", "code", "the",
\* "<U+FB01>le" (the fi ligature, 3 chars and 5 bytes) and two CJK chars
\* (2 chars and 6 bytes).
RawWords ==
    { <<100, 97, 116, 97>>, <<68, 97, 116, 97>>, <<99, 111, 100, 101>>,
      <<116, 104, 101>>, <<64257, 108, 101>>, <<26085, 26412>> }

\* text.nfkc() on one char: the ligature U+FB01 becomes "fi", the fullwidth
\* capitals U+FF21..U+FF3A become 'A'..'Z', the ideographic space U+3000
\* becomes ' '; the other chars of the model are unchanged by NFKC.
Nfkc(ch) ==
    IF ch = 64257 THEN <<102, 105>>
    ELSE IF ch >= 65313 /\ ch <= 65338 THEN <<ch - 65248>>
    ELSE IF ch = 12288 THEN <<32>>
    ELSE <<ch>>

\* char lowercase mapping of to_lowercase() on the chars of the model.
ToLowercase(ch) == IF ch >= 65 /\ ch <= 90 THEN ch + 32 ELSE ch

\* text.nfkc() and the flat_map of lines 137-139.
RECURSIVE NfkcChars(_)
NfkcChars(s) == IF s = <<>> THEN <<>> ELSE Nfkc(Head(s)) \o NfkcChars(Tail(s))

\* String::to_lowercase
to_lowercase(s) == [k \in 1..Len(s) |-> ToLowercase(s[k])]

\* Lines 134-141.
normalize_text(t) == to_lowercase(NfkcChars(t))

\* char::is_whitespace on the chars of the model.
IsWhitespace(ch) == ch \in {9, 10, 11, 12, 13, 32, 133, 160, 5760, 8232, 8233, 8239, 8287, 12288}
                       \/ (ch >= 8192 /\ ch <= 8202)

\* str::split_whitespace: the maximal runs of non-whitespace chars.
RECURSIVE SplitFrom(_, _, _)
SplitFrom(s, cur, acc) ==
    IF s = <<>> THEN (IF cur = <<>> THEN acc ELSE Append(acc, cur))
    ELSE IF IsWhitespace(Head(s))
         THEN SplitFrom(Tail(s), <<>>, IF cur = <<>> THEN acc ELSE Append(acc, cur))
         ELSE SplitFrom(Tail(s), Append(cur, Head(s)), acc)

split_whitespace(s) == SplitFrom(s, <<>>, <<>>)

\* Lines 148-151: the words of more than 3 bytes.
LongWords(ws) == SelectSeq(ws, LAMBDA w : StrLen(w) > 3)

\* Lines 153-156: the frequency table, word |-> number of entries.
RECURSIVE Frequency(_)
Frequency(ws) ==
    IF ws = <<>> THEN <<>>
    ELSE LET f == Frequency(Tail(ws))
             w == Head(ws) IN
         IF w \in DOMAIN f THEN [f EXCEPT ![w] = @ + 1]
         ELSE [x \in DOMAIN f \cup {w} |-> IF x = w THEN 1 ELSE f[x]]

\* The orders in which frequency.iter() can visit the table (a HashMap with
\* a randomly seeded hasher): every order of its keys.
IterationOrders(f) ==
    LET n == Cardinality(DOMAIN f) IN
    {o \in [1..n -> DOMAIN f] : \A a, b \in 1..n : a # b => o[a] # o[b]}

\* Mutant of SortsBefore: ascending counts.
SortsBeforeAscending(a, b) == a[2] < b[2]

\* Line 159, the comparator b.1.cmp(a.1): a sorts before b when a's count is
\* the larger one.
SortsBefore(a, b) == a[2] > b[2]

\* sort_by is a stable sort: an entry is placed before the first entry it
\* sorts before, after all entries it compares equal to.
InsertSorted(sorted, e) ==
    LET later == {k \in 1..Len(sorted) : SortsBefore(e, sorted[k])}
        at == IF later = {} THEN Len(sorted) + 1
              ELSE CHOOSE k \in later : \A l \in later : k <= l IN
    SubSeq(sorted, 1, at - 1) \o <<e>> \o SubSeq(sorted, at, Len(sorted))

RECURSIVE SortByCount(_)
SortByCount(es) ==
    IF es = <<>> THEN <<>>
    ELSE InsertSorted(SortByCount(SubSeq(es, 1, Len(es) - 1)), es[Len(es)])

\* Lines 161-164: the first max words of the sorted entries.
TakeWords(es, max) == [k \in 1..Min(max, Len(es)) |-> es[k][1]]

RECURSIVE JoinWords(_)
JoinWords(ws) ==
    IF ws = <<>> THEN <<>>
    ELSE IF Len(ws) = 1 THEN ws[1]
    ELSE ws[1] \o <<32>> \o JoinWords(Tail(ws))

InitKeywords ==
    /\ SearchIdle
    /\ DeltaIdle
    /\ CompressIdle
    /\ \E ws \in SeqsUpTo(RawWords, MaxWords) : kw_text = JoinWords(ws)
    /\ max_keywords \in 0..MaxKeywords
    /\ keywords = <<>>
    /\ pc = "keywords_call"

\* Lines 144-165.
ExtractKeywords ==
    /\ pc = "keywords_call"
    /\ LET words == LongWords(split_whitespace(normalize_text(kw_text)))
           frequency == Frequency(words) IN
         \E order \in IterationOrders(frequency) :
            LET entries == [k \in 1..Len(order) |-> <<order[k], frequency[order[k]]>>] IN
            keywords' = TakeWords(SortByCount(entries), max_keywords)
    /\ pc' = "keywords_done"
    /\ UNCHANGED <<kw_text, max_keywords, searchVars, deltaVars, compressVars>>

NextKeywords == ExtractKeywords

SpecKeywords == InitKeywords /\ [][NextKeywords]_vars

----------------------------------------------------------------------------
(* Claims about extract_keywords *)

\* Number of times w appears among the words of the normalized text.
Occurrences(w) ==
    LET ws == split_whitespace(normalize_text(kw_text)) IN
    Cardinality({k \in 1..Len(ws) : ws[k] = w})

\* C6: at most max_keywords words are returned, in non-increasing order of
\* their occurrence count in the normalized, whitespace-split text.
C6_BoundedAndSorted ==
    pc = "keywords_done" =>
        /\ Len(keywords) <= max_keywords
        /\ \A k \in 1..Len(keywords) : \A l \in (k + 1)..Len(keywords) :
               Occurrences(keywords[k]) >= Occurrences(keywords[l])

\* C6 witness: the result is cut to max_keywords >= 2 words of different
\* counts and a word of the table is left out.
C6_Witness ==
    /\ pc = "keywords_done"
    /\ max_keywords >= 2
    /\ Len(keywords) = max_keywords
    /\ Occurrences(keywords[1]) > Occurrences(keywords[2])
    /\ Cardinality(DOMAIN Frequency(LongWords(split_whitespace(normalize_text(kw_text)))))
           > max_keywords

----------------------------------------------------------------------------
(* DataCompressor::delta_encode and DataCompressor::delta_decode *)

(* An f32 sample is modelled by the integer h with value h / 2, so samples *)
(* are multiples of one half.  All samples, differences and running sums   *)
(* of the model are below 2^23 in magnitude, hence exact in f32, and the   *)
(* f32 subtraction and addition of the source are exact on them.           *)

I16_MAX == 32767

I16_MIN == -32768

\* The samples of the inputs: -40000, -32768, -1.5, -1, 0, 0.5, 2, 32767, 40000.
Samples == {-80000, -65536, -3, -2, 0, 1, 4, 65534, 80000}

\* Rounding of an f32 toward zero to an integer.
TruncTowardZero(h) == IF h >= 0 THEN h \div 2 ELSE -((-h) \div 2)

\* Mutant of CastI16: the integer part is reduced modulo 2^16.
CastI16Wrapping(h) ==
    ((TruncTowardZero(h) - I16_MIN) % 65536) + I16_MIN

\* Line 232, `as i16` on an f32: the value is rounded toward zero and an
\* out-of-range value becomes the nearest i16.
CastI16(h) ==
    LET t == TruncTowardZero(h) IN
    IF t > I16_MAX THEN I16_MAX ELSE IF t < I16_MIN THEN I16_MIN ELSE t

\* Mutant of to_le_bytes: most significant byte first.
to_be_bytes(d) ==
    LET u == d % 65536 IN <<u \div 256, u % 256>>

\* i16::to_le_bytes: the two's complement of d, least significant byte first.
to_le_bytes(d) ==
    LET u == d % 65536 IN <<u % 256, u \div 256>>

\* i16::from_le_bytes([lo, hi])
from_le_bytes(lo, hi) ==
    LET u == lo + 256 * hi IN IF u > I16_MAX THEN u - 65536 ELSE u

\* Lines 229-235: the deltas of vals against the running last_value.
RECURSIVE DeltasFrom(_, _)
DeltasFrom(vals, last_value) ==
    IF vals = <<>> THEN <<>>
    ELSE <<CastI16(Head(vals) - last_value)>> \o DeltasFrom(Tail(vals), Head(vals))

RECURSIVE FlattenBytes(_)
FlattenBytes(ds) ==
    IF ds = <<>> THEN <<>> ELSE to_le_bytes(Head(ds)) \o FlattenBytes(Tail(ds))

\* Lines 226-241.
delta_encode(vals) == FlattenBytes(DeltasFrom(vals, 0))

\* Lines 245-251: one delta per complete pair of bytes.
ReadDeltas(bytes) ==
    [k \in 1..(Len(bytes) \div 2) |-> from_le_bytes(bytes[2 * k - 1], bytes[2 * k])]

\* Lines 253-257: the running sums, current_value += delta as f32.
RECURSIVE RunningSums(_, _)
RunningSums(ds, current_value) ==
    IF ds = <<>> THEN <<>>
    ELSE LET next == current_value + 2 * Head(ds) IN
         <<next>> \o RunningSums(Tail(ds), next)

\* Lines 244-258; result is long enough to take every value.
delta_decode(bytes) == RunningSums(ReadDeltas(bytes), 0)

InitDelta ==
    /\ SearchIdle
    /\ KeywordsIdle
    /\ CompressIdle
    /\ values \in SeqsUpTo(Samples, MaxSamples)
    /\ encoded = <<>>
    /\ decoded = <<>>
    /\ pc = "delta_call"

DeltaEncode ==
    /\ pc = "delta_call"
    /\ encoded' = delta_encode(values)
    /\ pc' = "delta_encoded"
    /\ UNCHANGED <<values, decoded, searchVars, kwVars, compressVars>>

DeltaDecode ==
    /\ pc = "delta_encoded"
    /\ decoded' = delta_decode(encoded)
    /\ pc' = "delta_done"
    /\ UNCHANGED <<values, encoded, searchVars, kwVars, compressVars>>

NextDelta == DeltaEncode \/ DeltaDecode

SpecDelta == InitDelta /\ [][NextDelta]_vars

----------------------------------------------------------------------------
(* Claims about the delta codec *)

\* Difference of sample k against its predecessor (0 before the first), in halves.
Difference(k) == values[k] - (IF k = 1 THEN 0 ELSE values[k - 1])

\* The 16-bit word stored for sample k, read as an unsigned number.
StoredWord(k) == encoded[2 * k - 1] + 256 * encoded[2 * k]

\* C2 as stated: a difference outside [-32768, 32767] is stored wrapped
\* modulo 2^16, so the single sample 40000 decodes to -25536.
C2_WrapsOnOverflow ==
    pc = "delta_done" =>
        /\ \A k \in 1..Len(values) :
              StoredWord(k) = TruncTowardZero(Difference(k)) % 65536
        /\ values = <<80000>> => decoded = <<2 * (-25536)>>

\* C2 amended: a difference outside [-32768, 32767] is stored as the nearest
\* bound of the range, so the single sample 40000 decodes to 32767.
C2_SaturatesOnOverflow ==
    pc = "delta_done" =>
        /\ \A k \in 1..Len(values) :
              LET t == TruncTowardZero(Difference(k)) IN
              StoredWord(k) = IF t > 32767 THEN 32767
                              ELSE IF t < -32768 THEN 32768
                              ELSE (t + 65536) % 65536
        /\ values = <<80000>> => decoded = <<2 * 32767>>

\* C2 witness: the single sample 40000 has been encoded and decoded.
C2_Witness ==
    pc = "delta_done" /\ values = <<80000>> /\ decoded = <<65534>>

\* The samples are integers and every difference is within the i16 range.
ExactlyEncodable ==
    \A k \in 1..Len(values) :
        /\ values[k] % 2 = 0
        /\ Difference(k) \div 2 >= -32768
        /\ Difference(k) \div 2 <= 32767

\* C5: decoding the encoding of integral samples whose differences are all
\* within the i16 range gives the samples back, element by element.
C5_RoundTrip ==
    (pc = "delta_done" /\ ExactlyEncodable) => decoded = values

\* C5 witness: a round trip of several samples with a negative difference
\* and a difference at a bound of the i16 range.
C5_Witness ==
    /\ pc = "delta_done"
    /\ ExactlyEncodable
    /\ Len(values) >= 2
    /\ \E k \in 1..Len(values) : Difference(k) < 0
    /\ \E k \in 1..Len(values) : Difference(k) \in {-65536, 65534}
    /\ decoded = values

----------------------------------------------------------------------------
(* DataCompressor::fast_compress *)

(* The model is scaled in two places so that the positions beyond the      *)
(* window and beyond the range of the two offset bytes are within reach of *)
(* the inputs: WINDOW stands for the 4096 of line 188, and OFFSET_RADIX    *)
(* for the 256 values of each of the two offset bytes of lines 208-209     *)
(* (a stored offset is reduced modulo OFFSET_RADIX^2 as the source reduces *)
(* it modulo 65536).  As in the source the window is smaller than the      *)
(* range of the stored offset, and larger than the longest match.          *)

WINDOW == 16

OFFSET_RADIX == 5

MIN_COMPRESS_LEN == 16

MAX_MATCH == 15

MIN_MATCH == 3

MAX_LITERAL == 15

MATCH_FLAG == 128

\* The byte values of the inputs, and the byte of a defect.
DataBytes == {65, 66}

DefectByte == 67

\* Mutant of MatchRun: the comparison stops at length 3.
RECURSIVE MatchRunShort(_, _, _, _)
MatchRunShort(d, p, c, length) ==
    IF p + length < Len(d) /\ c + length < p /\ d[p + length + 1] = d[c + length + 1]
    THEN IF length + 1 >= MIN_MATCH THEN length + 1
         ELSE MatchRunShort(d, p, c, length + 1)
    ELSE length

\* Lines 189-197: the length of the run at position p that agrees with the
\* bytes from candidate c, compared below p only and cut at 15.
RECURSIVE MatchRun(_, _, _, _)
MatchRun(d, p, c, length) ==
    IF p + length < Len(d) /\ c + length < p /\ d[p + length + 1] = d[c + length + 1]
    THEN IF length + 1 >= MAX_MATCH THEN length + 1
         ELSE MatchRun(d, p, c, length + 1)
    ELSE length

\* Lines 188-203: the candidates c = 0 .. min(p, WINDOW) - 1 in order; a
\* candidate replaces the best one only when its run is strictly longer.
\* The result is <<match_length, match_offset>>.
RECURSIVE FindMatch(_, _, _, _, _)
FindMatch(d, p, c, best_length, best_offset) ==
    IF c >= Min(p, WINDOW) THEN <<best_length, best_offset>>
    ELSE LET length == MatchRun(d, p, c, 0) IN
         IF length > best_length
         THEN FindMatch(d, p, c + 1, length, p - c)
         ELSE FindMatch(d, p, c + 1, best_length, best_offset)

\* Lines 207-209: the header byte and the two offset bytes, high one first,
\* each cut to its range.
MatchToken(length, offset) ==
    << MATCH_FLAG + (length - MIN_MATCH),
       (offset \div OFFSET_RADIX) % OFFSET_RADIX,
       offset % OFFSET_RADIX >>

\* Line 213.
LiteralLength(d, p) == Min(MAX_LITERAL, Len(d) - p)

\* Lines 214-217: the length byte and the raw bytes.
LiteralToken(d, p) ==
    <<LiteralLength(d, p)>> \o SubSeq(d, p + 1, p + LiteralLength(d, p))

\* n copies of byte b.
RunOf(b, n) == [k \in 1..n |-> b]

\* n bytes that repeat seed, with DefectByte at index at (no defect if at = 0).
Tiled(seed, n, at) ==
    [k \in 1..n |-> IF k = at THEN DefectByte ELSE seed[((k - 1) % Len(seed)) + 1]]

CompressInputs ==
    {RunOf(b, n) : b \in DataBytes, n \in 1..MaxRun}
        \cup UNION { {Tiled(seed, n, at) : at \in 0..n} :
                        seed \in SeqsUpTo(DataBytes, MaxSeedLen) \ {<<>>},
                        n \in 1..MaxDataLen }

InitCompress ==
    /\ SearchIdle
    /\ KeywordsIdle
    /\ DeltaIdle
    /\ data \in CompressInputs
    /\ pos = 0
    /\ compressed = <<>>
    /\ match_length = 0
    /\ match_offset = 0
    /\ pc = "compress_call"

\* Lines 176-178: a short input is returned as it is.
CompressShort ==
    /\ pc = "compress_call"
    /\ Len(data) < MIN_COMPRESS_LEN
    /\ compressed' = data
    /\ pc' = "compress_done"
    /\ UNCHANGED <<data, pos, match_length, match_offset, searchVars, kwVars, deltaVars>>

\* Lines 180-181.
CompressBegin ==
    /\ pc = "compress_call"
    /\ Len(data) >= MIN_COMPRESS_LEN
    /\ compressed' = <<>>
    /\ pos' = 0
    /\ pc' = "compress_loop"
    /\ UNCHANGED <<data, match_length, match_offset, searchVars, kwVars, deltaVars>>

\* Lines 183-210: one iteration that emits a match token.
CompressMatch ==
    /\ pc = "compress_loop"
    /\ pos < Len(data)
    /\ LET best == FindMatch(data, pos, 0, 0, 0) IN
         /\ best[1] >= MIN_MATCH
         /\ match_length' = best[1]
         /\ match_offset' = best[2]
         /\ compressed' = compressed \o MatchToken(best[1], best[2])
         /\ pos' = pos + best[1]
    /\ UNCHANGED <<pc, data, searchVars, kwVars, deltaVars>>

\* Lines 183-203, 211-219: one iteration that emits a literal token.
CompressLiteral ==
    /\ pc = "compress_loop"
    /\ pos < Len(data)
    /\ LET best == FindMatch(data, pos, 0, 0, 0) IN
         /\ best[1] < MIN_MATCH
         /\ match_length' = best[1]
         /\ match_offset' = best[2]
         /\ compressed' = compressed \o LiteralToken(data, pos)
         /\ pos' = pos + LiteralLength(data, pos)
    /\ UNCHANGED <<pc, data, searchVars, kwVars, deltaVars>>

\* Line 183 false, line 222.
CompressReturn ==
    /\ pc = "compress_loop"
    /\ pos >= Len(data)
    /\ pc' = "compress_done"
    /\ UNCHANGED <<compressVars, searchVars, kwVars, deltaVars>>

NextCompress ==
    \/ CompressShort
    \/ CompressBegin
    \/ CompressMatch
    \/ CompressLiteral
    \/ CompressReturn

SpecCompress == InitCompress /\ [][NextCompress]_vars

----------------------------------------------------------------------------
(* Claims about fast_compress *)

\* C3: every match token of an input of at least 16 bytes refers into the
\* window of the most recent WINDOW bytes: its offset is between 1 and
\* WINDOW and its length between 3 and 17.
C3_MatchWithinWindow ==
    (pc \in {"compress_loop", "compress_done"} /\ match_length >= MIN_MATCH) =>
        /\ match_offset >= 1
        /\ match_offset <= WINDOW
        /\ match_length >= 3
        /\ match_length <= 17

IsRun(d) == \A k \in 1..Len(d) : d[k] = d[1]

\* C7 as stated: the output for n >= 16 copies of one byte is strictly
\* shorter than n.
C7_RunShrinks ==
    (pc = "compress_done" /\ IsRun(data) /\ Len(data) >= 16) =>
        Len(compressed) < Len(data)

\* C7 amended: the output for n >= 20 copies of one byte is strictly
\* shorter than n.
C7_LongRunShrinks ==
    (pc = "compress_done" /\ IsRun(data) /\ Len(data) >= 20) =>
        Len(compressed) < Len(data)

\* C7 witness: 100 copies of 0x41 have been compressed to fewer bytes.
C7_Witness ==
    /\ pc = "compress_done"
    /\ data = RunOf(65, 100)
    /\ Len(compressed) < 100

\* The decoder of the token format: a header h < 0x80 is followed by h
\* literal bytes; a header h >= 0x80 is followed by the two offset bytes,
\* high one first, and copies (h & 0x7F) + 3 bytes that start offset bytes
\* before the end of the output.  The result is <<ok, output>>; ok is FALSE
\* when the stream ends inside a token or a copy has its source outside the
\* bytes decoded so far.
RECURSIVE Decode(_, _, _)
Decode(s, k, out) ==
    IF k > Len(s) THEN <<TRUE, out>>
    ELSE LET h == s[k] IN
         IF h < MATCH_FLAG
         THEN IF k + h > Len(s) THEN <<FALSE, out>>
              ELSE Decode(s, k + 1 + h, out \o SubSeq(s, k + 1, k + h))
         ELSE IF k + 2 > Len(s) THEN <<FALSE, out>>
              ELSE LET offset == s[k + 1] * OFFSET_RADIX + s[k + 2]
                       length == (h - MATCH_FLAG) + 3
                       from == Len(out) - offset IN
                   IF offset < 1 \/ from < 0 \/ from + length > Len(out)
                   THEN <<FALSE, out>>
                   ELSE Decode(s, k + 3, out \o SubSeq(out, from + 1, from + length))

\* C8: the token stream of an input of at least 16 bytes decodes back to
\* the input.
C8_Decodable ==
    (pc = "compress_done" /\ Len(data) >= 16) =>
        Decode(compressed, 1, <<>>) = <<TRUE, data>>

====
